---- MODULE Spec2Model ----
(***************************************************************************)
(* The email stage of the authentik flow engine                            *)
(* (src/authentik/stages/email/stage.py) together with the parts of the    *)
(* flow executor and the token store it drives.                            *)
(*                                                                         *)
(* Time is counted in minutes.  Names (stage names, usernames, token       *)
(* identifiers) are sequences of one-character strings so that slugify     *)
(* can be computed as the library computes it.  A plan context is a        *)
(* function whose domain is the set of keys present in the context.        *)
(***************************************************************************)
EXTENDS Integers, Sequences, FiniteSets, TLC

(* ------------------------------ bounds -------------------------------- *)

\* the clock runs from 0 to MaxTime minutes
MaxTime == 3
\* number of fresh token keys default_token_key() can hand out
MaxKeys == 3
\* number of initial emails counted on one plan
MaxSends == 2

(* ------------------------- names and constants ------------------------ *)

PLAN_CONTEXT_EMAIL_SENT == "email_sent"
PLAN_CONTEXT_EMAIL_OVERRIDE == "email"
PLAN_CONTEXT_IS_RESTORED == "is_restored"
PLAN_CONTEXT_PENDING_USER == "pending_user"

\* usernames: str(user) is the username
UserAB == <<"a", "-", "b">>
UserB == <<"B">>
Users == {UserAB, UserB}

\* the email stages configured in the flow
StageS == [name |-> <<"s">>, token_expiry |-> 1, activate_user_on_success |-> TRUE]
StageSA == [name |-> <<"s", "-", "a">>, token_expiry |-> 2, activate_user_on_success |-> FALSE]
Stages == {StageS, StageSA}

NoToken == [pk |-> 0]
NoMail == [to |-> "none"]
OverrideAddress == "override@example"

\* user.email
email_of(user) == <<"mailbox", user>>

(* ------------------------------ slugify ------------------------------- *)

\* str.lower() on the characters that occur
lower(c) == IF c = "B" THEN "b" ELSE c
\* \w of the regular expressions: letters, digits and the underscore
IsWord(c) == c \in {"a", "b", "e", "g", "i", "k", "l", "m", "s", "t", "B", "_"}
\* \s
IsSpace(c) == c = " "

RECURSIVE MapLower(_)
MapLower(s) == IF s = <<>> THEN <<>> ELSE <<lower(Head(s))>> \o MapLower(Tail(s))

\* re.sub(r"[^\w\s-]", "", value)
RECURSIVE RemoveOther(_)
RemoveOther(s) ==
    IF s = <<>> THEN <<>>
    ELSE IF IsWord(Head(s)) \/ IsSpace(Head(s)) \/ Head(s) = "-"
         THEN <<Head(s)>> \o RemoveOther(Tail(s))
         ELSE RemoveOther(Tail(s))

\* re.sub(r"[-\s]+", "-", value)
RECURSIVE CollapseDashes(_)
CollapseDashes(s) ==
    IF s = <<>> THEN <<>>
    ELSE IF IsSpace(Head(s)) \/ Head(s) = "-"
         THEN LET rest == CollapseDashes(Tail(s))
              IN IF rest # <<>> /\ Head(rest) = "-" THEN rest ELSE <<"-">> \o rest
         ELSE <<Head(s)>> \o CollapseDashes(Tail(s))

\* str.strip("-_")
RECURSIVE StripLeft(_)
StripLeft(s) ==
    IF s # <<>> /\ Head(s) \in {"-", "_"} THEN StripLeft(Tail(s)) ELSE s

RECURSIVE StripRight(_)
StripRight(s) ==
    IF s # <<>> /\ s[Len(s)] \in {"-", "_"} THEN StripRight(SubSeq(s, 1, Len(s) - 1)) ELSE s

slugify(value) == StripRight(StripLeft(CollapseDashes(RemoveOther(MapLower(value)))))

(* --------------------------- plan context ----------------------------- *)

Has(ctx, k) == k \in DOMAIN ctx
\* dict.get(k, default)
GetOr(ctx, k, default) == IF k \in DOMAIN ctx THEN ctx[k] ELSE default
\* context[k] = v
Put(ctx, k, v) == [x \in (DOMAIN ctx) \cup {k} |-> IF x = k THEN v ELSE ctx[x]]
EmptyContext == [x \in {} |-> TRUE]

\* FlowToken.pickle(plan): the plan written out as flow, stage, cursor and the
\* list of the context's items
pickle(pl) ==
    [flow |-> pl.flow, stage |-> pl.stage, cursor |-> pl.cursor,
     items |-> {<<k, pl.context[k]>> : k \in DOMAIN pl.context}]

\* token.plan: the plan read back from the snapshot
unpickle(blob) ==
    [flow |-> blob.flow, stage |-> blob.stage, cursor |-> blob.cursor,
     context |-> [k \in {i[1] : i \in blob.items} |->
                    (CHOOSE i \in blob.items : i[1] = k)[2]]]

(* ---------------------------- token store ----------------------------- *)

\* default_token_key(): the next unused key
default_token_key(fresh) == fresh

\* FlowToken.objects.filter(identifier=identifier)
filter_identifier(store, id) == {t \in store : t.identifier = id}

\* QuerySet.exists()
exists(rows) == rows # {}

\* QuerySet.first(): the row with the least primary key
first(rows) == CHOOSE t \in rows : \A o \in rows : t.pk <= o.pk

\* mutant: no unique constraint on the identifier
unique_violation_never(store, row) == FALSE

\* the identifier column is unique: an insert of a second row with the
\* identifier of a stored row is refused
unique_violation(store, row) == \E t \in store : t.identifier = row.identifier

\* FlowToken.objects.create(...)
create(store, row) == IF unique_violation(store, row) THEN store ELSE store \cup {row}

\* mutant: a save that adds a row and keeps the old one
save_inserts(store, row) == store \cup {row}

\* Model.save(): the row with this primary key is overwritten; when the
\* table holds no row with this primary key the row is inserted
save(store, row) == {t \in store : t.pk # row.pk} \cup {row}

\* Model.save() of a row whose primary key has left the table is an insert,
\* refused like any other when its identifier is held by a row of the table
save_refused(store, row) ==
    /\ \A t \in store : t.pk # row.pk
    /\ unique_violation(store, row)

\* Token.is_expired
is_expired(token, time) == time > token.expires

\* housekeeping outside the stage: an expired row is deleted
delete(store, row) == store \ {row}

\* the executor's lookup of a presented key
redeem(store, key) == {t \in store : t.key = key}

(* --------------------------- the email stage -------------------------- *)

\* A request at work: the plan it works on, the database as its next
\* statement finds it, where the handler stands (pc), and the effects the
\* request has had so far.  Nothing is held between the statements of a
\* request, and statements of other requests can fall between them: the
\* handlers below take a request from where it stands up to and including
\* its next statement (a query or a write on the token table, or the call
\* of send_mails, or a reading of the clock), or to its end.  existed is what
\* exists() answered, expires the expiry computed for a new token, found
\* the row first() returned, token the token get_token holds.
Request(pl, store, active) ==
    [plan |-> pl, store |-> store, active |-> active, pc |-> "start",
     outcome |-> "none", error |-> "none", messages |-> <<>>, mails |-> <<>>,
     saved |-> <<>>, used |-> 0, existed |-> FALSE, expires |-> 0, found |-> NoToken,
     token |-> NoToken, created |-> {}, rotated |-> {}]

\* StageView.get_pending_user(): the plan's pending user, else the request's user
get_pending_user(r, request_user) ==
    IF Has(r.plan.context, PLAN_CONTEXT_PENDING_USER)
    THEN r.plan.context[PLAN_CONTEXT_PENDING_USER]
    ELSE request_user

\* mutant: the extra minute left out
valid_delta_no_margin(current_stage) == current_stage.token_expiry

\* timedelta(minutes=current_stage.token_expiry + 1)
valid_delta(current_stage) == current_stage.token_expiry + 1

\* the ttl a token was created with: the valid_delta of the stage in its snapshot
ttl(token) == valid_delta(token.plan.stage)

\* Token.expire_action(), called without an argument: a new key on the same
\* row, and an expiry one ttl of the token ahead of the clock, whatever the
\* stage of the request that calls it
expire_action(token, fresh, time) ==
    [token EXCEPT !.key = default_token_key(fresh), !.expires = time + ttl(token)]

\* slugify(f"ak-email-stage-{current_stage.name}-{pending_user}"), computed
\* once for every stage name and username
Identifiers ==
    [name \in {s.name : s \in Stages}, user \in Users |->
        slugify(<<"a", "k", "-", "e", "m", "a", "i", "l", "-", "s", "t", "a", "g", "e", "-">>
                \o name \o <<"-">> \o user)]

identifier(current_stage, pending_user) == Identifiers[current_stage.name, pending_user]

\* mutant: a token created whatever the lookup finds
token_missing_always(rows) == TRUE

\* if not tokens.exists()
token_missing(rows) == ~exists(rows)

\* mutants: the expiry check dropped, or never taken
needs_rotation_always(token, time) == TRUE
needs_rotation_never(token, time) == FALSE

\* if token.is_expired
needs_rotation(token, time) == is_expired(token, time)

\* mutant: the snapshot taken with the marker email_sent already written
new_token_marked(r, request_user, expires, fresh) ==
    [pk |-> fresh,
     identifier |-> identifier(r.plan.stage, get_pending_user(r, request_user)),
     key |-> default_token_key(fresh),
     expires |-> expires,
     user |-> get_pending_user(r, request_user),
     flow |-> r.plan.flow,
     plan |-> pickle([r.plan EXCEPT !.context = Put(@, PLAN_CONTEXT_EMAIL_SENT, TRUE)])]

\* the row FlowToken.objects.create() is asked to insert, with the expiry
\* computed before the call
new_token(r, request_user, expires, fresh) ==
    [pk |-> fresh,
     identifier |-> identifier(r.plan.stage, get_pending_user(r, request_user)),
     key |-> default_token_key(fresh),
     expires |-> expires,
     user |-> get_pending_user(r, request_user),
     flow |-> r.plan.flow,
     plan |-> pickle(r.plan)]

\* an exception leaves the handler: the request ends without a response of the stage
raised(r, error) == [r EXCEPT !.pc = "raised", !.outcome = "raised", !.error = error]

\* mutant: an expired token deleted and a new one created in its place
get_token_recreates(r, request_user, time, fresh) ==
    LET pending_user == get_pending_user(r, request_user)
        current_stage == r.plan.stage
        tokens == filter_identifier(r.store, identifier(current_stage, pending_user))
    IN  CASE r.pc = "exists" ->
               IF token_missing(tokens)
               THEN [r EXCEPT !.pc = "now", !.existed = exists(tokens)]
               ELSE [r EXCEPT !.pc = "first", !.existed = exists(tokens)]
          [] r.pc = "now" ->
               [r EXCEPT !.pc = "create", !.expires = time + valid_delta(current_stage)]
          [] r.pc = "create" ->
               LET row == new_token(r, request_user, r.expires, fresh)
               IN IF unique_violation(r.store, row)
                  THEN raised([r EXCEPT !.used = 1], "IntegrityError")
                  ELSE [r EXCEPT !.pc = "returned", !.store = create(r.store, row),
                                 !.token = row, !.created = {row}, !.used = 1]
          [] r.pc = "first" ->
               IF tokens = {}
               THEN [r EXCEPT !.pc = "check"]
               ELSE [r EXCEPT !.pc = "check", !.found = first(tokens), !.token = first(tokens)]
          [] r.pc = "check" ->
               IF r.token = NoToken
               THEN raised(r, "AttributeError")
               ELSE IF needs_rotation(r.token, time)
               THEN [r EXCEPT !.pc = "save"]
               ELSE [r EXCEPT !.pc = "returned"]
          [] r.pc = "save" ->
               LET row == new_token(r, request_user, time + valid_delta(current_stage), fresh)
               IN [r EXCEPT !.pc = "returned",
                            !.store = {t \in r.store : t.pk # r.token.pk} \cup {row},
                            !.token = row, !.rotated = {r.token}, !.used = 1]

\* mutant: a rotation that stores the plan of the rotating request
get_token_resnapshots(r, request_user, time, fresh) ==
    LET pending_user == get_pending_user(r, request_user)
        current_stage == r.plan.stage
        tokens == filter_identifier(r.store, identifier(current_stage, pending_user))
    IN  CASE r.pc = "exists" ->
               IF token_missing(tokens)
               THEN [r EXCEPT !.pc = "now", !.existed = exists(tokens)]
               ELSE [r EXCEPT !.pc = "first", !.existed = exists(tokens)]
          [] r.pc = "now" ->
               [r EXCEPT !.pc = "create", !.expires = time + valid_delta(current_stage)]
          [] r.pc = "create" ->
               LET row == new_token(r, request_user, r.expires, fresh)
               IN IF unique_violation(r.store, row)
                  THEN raised([r EXCEPT !.used = 1], "IntegrityError")
                  ELSE [r EXCEPT !.pc = "returned", !.store = create(r.store, row),
                                 !.token = row, !.created = {row}, !.used = 1]
          [] r.pc = "first" ->
               IF tokens = {}
               THEN [r EXCEPT !.pc = "check"]
               ELSE [r EXCEPT !.pc = "check", !.found = first(tokens), !.token = first(tokens)]
          [] r.pc = "check" ->
               IF r.token = NoToken
               THEN raised(r, "AttributeError")
               ELSE IF needs_rotation(r.token, time)
               THEN [r EXCEPT !.pc = "save"]
               ELSE [r EXCEPT !.pc = "returned"]
          [] r.pc = "save" ->
               LET renewed == [expire_action(r.token, fresh, time) EXCEPT !.plan = pickle(r.plan)]
               IN IF save_refused(r.store, renewed)
                  THEN raised([r EXCEPT !.used = 1], "IntegrityError")
                  ELSE [r EXCEPT !.pc = "returned", !.store = save(r.store, renewed),
                                 !.token = renewed, !.rotated = {r.token}, !.used = 1]

\* EmailStageView.get_token, one statement at a time.  exists() answers
\* whether a row holds the identifier.  Without one the expiry of the new
\* token is computed from now(), and the insert is the statement after it:
\* it stores the expiry computed before, and raises IntegrityError when the
\* identifier has been taken since exists().  With one first() reads the
\* row, or None when the row has gone since; token.is_expired then reads the
\* clock, and raises AttributeError on None; an expired row is given a new
\* key and expiry by expire_action(), whose save is the next statement.
get_token(r, request_user, time, fresh) ==
    LET pending_user == get_pending_user(r, request_user)
        current_stage == r.plan.stage
        tokens == filter_identifier(r.store, identifier(current_stage, pending_user))
    IN  CASE r.pc = "exists" ->
               IF token_missing(tokens)
               THEN [r EXCEPT !.pc = "now", !.existed = exists(tokens)]
               ELSE [r EXCEPT !.pc = "first", !.existed = exists(tokens)]
          [] r.pc = "now" ->
               [r EXCEPT !.pc = "create", !.expires = time + valid_delta(current_stage)]
          [] r.pc = "create" ->
               LET row == new_token(r, request_user, r.expires, fresh)
               IN IF unique_violation(r.store, row)
                  THEN raised([r EXCEPT !.used = 1], "IntegrityError")
                  ELSE [r EXCEPT !.pc = "returned", !.store = create(r.store, row),
                                 !.token = row, !.created = {row}, !.used = 1]
          [] r.pc = "first" ->
               IF tokens = {}
               THEN [r EXCEPT !.pc = "check"]
               ELSE [r EXCEPT !.pc = "check", !.found = first(tokens), !.token = first(tokens)]
          [] r.pc = "check" ->
               IF r.token = NoToken
               THEN raised(r, "AttributeError")
               ELSE IF needs_rotation(r.token, time)
               THEN [r EXCEPT !.pc = "save"]
               ELSE [r EXCEPT !.pc = "returned"]
          [] r.pc = "save" ->
               LET renewed == expire_action(r.token, fresh, time)
               IN IF save_refused(r.store, renewed)
                  THEN raised([r EXCEPT !.used = 1], "IntegrityError")
                  ELSE [r EXCEPT !.pc = "returned", !.store = save(r.store, renewed),
                                 !.token = renewed, !.rotated = {r.token}, !.used = 1]

\* send_mails(current_stage, message)
send_mails(r, message) == [r EXCEPT !.mails = Append(@, message)]

\* EmailStageView.send_email: get_token statement by statement; once the
\* token is returned the message with its key is built, and the call of
\* send_mails is the request's next statement
send_email(r, request_user, time, fresh) ==
    LET pending_user == get_pending_user(r, request_user)
        override == GetOr(r.plan.context, PLAN_CONTEXT_EMAIL_OVERRIDE, "")
        email == IF override = "" THEN email_of(pending_user) ELSE override
        message == [to |-> email, key |-> r.token.key, user |-> pending_user,
                    expires |-> r.token.expires, stage |-> r.plan.stage.name]
        r1 == get_token(IF r.pc = "start" THEN [r EXCEPT !.pc = "exists"] ELSE r,
                        request_user, time, fresh)
    IN  IF r.pc = "send"
        THEN [send_mails(r, message) EXCEPT !.pc = "sent"]
        ELSE IF r1.pc = "returned"
        THEN [r1 EXCEPT !.pc = "send"]
        ELSE r1

\* messages.success / messages.error
add_message(r, text) == [r EXCEPT !.messages = Append(@, text)]

\* executor.stage_ok(): the plan moves on to the next stage
stage_ok(r) == [r EXCEPT !.pc = "done", !.outcome = "stage_ok", !.plan.cursor = @ + 1]

\* executor.stage_invalid(): the plan stays on the stage
stage_invalid(r) == [r EXCEPT !.pc = "done", !.outcome = "stage_invalid"]

\* ChallengeStageView.get(): the challenge is rendered
render_challenge(r) == [r EXCEPT !.pc = "done", !.outcome = "challenge"]

\* ChallengeStageView.challenge_invalid(): the challenge is shown again
super_challenge_invalid(r) == [r EXCEPT !.pc = "done", !.outcome = "stage_invalid"]

\* user.is_active = True; user.save()
activate(r, user) ==
    [r EXCEPT !.active = [@ EXCEPT ![user] = TRUE], !.saved = Append(@, user)]

\* mutant: the restored path taken only with a pending user
restored_entry_needs_user(has_token, ctx) ==
    has_token /\ GetOr(ctx, PLAN_CONTEXT_IS_RESTORED, FALSE) /\ Has(ctx, PLAN_CONTEXT_PENDING_USER)

\* mutants: the restored flag of the plan not consulted; the path never taken
restored_entry_token_only(has_token, ctx) == has_token
restored_entry_never(has_token, ctx) == FALSE

\* QS_KEY_TOKEN in request.session.get(SESSION_KEY_GET, {})
\*   and plan.context.get(PLAN_CONTEXT_IS_RESTORED, False)
restored_entry(has_token, ctx) ==
    has_token /\ GetOr(ctx, PLAN_CONTEXT_IS_RESTORED, FALSE)

\* mutant: the user activated whatever the stage's setting
activates_always(current_stage) == TRUE

\* if self.executor.current_stage.activate_user_on_success
activates(current_stage) == current_stage.activate_user_on_success

\* mutant: the pending-user check dropped
no_pending_user_never(ctx) == FALSE

\* PLAN_CONTEXT_PENDING_USER not in self.executor.plan.context
no_pending_user(ctx) == ~Has(ctx, PLAN_CONTEXT_PENDING_USER)

\* PLAN_CONTEXT_EMAIL_SENT not in self.executor.plan.context
marker_absent(ctx) == ~Has(ctx, PLAN_CONTEXT_EMAIL_SENT)

\* EmailStageView.get: the request r, at the start of the handler or inside
\* its call of send_email, is taken to its next statement or to its response
get(r, has_token, request_user, time, fresh) ==
    IF r.pc = "start" /\ restored_entry(has_token, r.plan.context)
    THEN LET r1 == add_message(r, "Successfully verified Email.")
             r2 == IF activates(r.plan.stage)
                   THEN activate(r1, get_pending_user(r1, request_user))
                   ELSE r1
         IN stage_ok(r2)
    ELSE IF r.pc = "start" /\ no_pending_user(r.plan.context)
    THEN stage_invalid(add_message(r, "No pending user."))
    ELSE IF r.pc # "start" \/ marker_absent(r.plan.context)
    THEN LET r1 == send_email(r, request_user, time, fresh)
         IN IF r1.pc = "sent"
            THEN render_challenge(
                   [r1 EXCEPT !.plan.context = Put(@, PLAN_CONTEXT_EMAIL_SENT, TRUE)])
            ELSE r1
    ELSE render_challenge(r)

\* EmailChallengeResponse.validate: raises for every input
validate(attrs) == FALSE

\* EmailStageView.challenge_valid
challenge_valid(r, request_user, time, fresh) == super_challenge_invalid(r)

\* mutant: the stage declared done once the email is resent
challenge_invalid_advances(r, request_user, time, fresh) ==
    IF r.pc = "start" /\ no_pending_user(r.plan.context)
    THEN super_challenge_invalid(add_message(r, "No pending user."))
    ELSE LET r1 == send_email(r, request_user, time, fresh)
         IN IF r1.pc = "sent" THEN stage_ok(r1) ELSE r1

\* EmailStageView.challenge_invalid: as get, statement by statement
challenge_invalid(r, request_user, time, fresh) ==
    IF r.pc = "start" /\ no_pending_user(r.plan.context)
    THEN super_challenge_invalid(add_message(r, "No pending user."))
    ELSE LET r1 == send_email(r, request_user, time, fresh)
         IN IF r1.pc = "sent" THEN super_challenge_invalid(r1) ELSE r1

\* ChallengeStageView.post: the response is validated and handed to a handler
post(r, attrs, request_user, time, fresh) ==
    IF validate(attrs)
    THEN challenge_valid(r, request_user, time, fresh)
    ELSE challenge_invalid(r, request_user, time, fresh)

(* ------------------------------- state -------------------------------- *)

\* One session is followed from request to request: its plan, and whether its
\* stored GET parameters hold the token key.  Every other session appears as
\* a single GET that brings its own plan along.  Under Spec the followed
\* session has one request under way at a time, and a request of another
\* session can overlap with it: nothing is held between the statements of a
\* request.  Housekeeping outside the stage deletes expired rows, and
\* send_mails can raise.  SpecRace follows the overlapping GETs of several
\* sessions with what each of them sees of the table when it dispatches.
VARIABLES
    now,          \* the clock, in minutes
    nextKey,      \* the next key default_token_key() hands out
    tokens,       \* the FlowToken table
    is_active,    \* the active flag of each user
    plan,         \* the plan of the session that is followed
    has_token,    \* whether that session's stored GET parameters hold the token key
    dispatched,   \* emails dispatched by GET entries on that session's current plan
    resp,         \* the request that has just ended: what it saw on entry and what it did
    inflight      \* the requests under way

vars == <<now, nextKey, tokens, is_active, plan, has_token, dispatched, resp, inflight>>

\* The contexts a plan holds when the stage is first entered.  The planner
\* and the stages before this one decide the context: a pending user may or
\* may not have been set, the address may be overridden, and the plan may
\* have been rehydrated from a token issued elsewhere in the flow engine, so
\* that it is flagged restored without holding a pending user.  The marker
\* email_sent is written by this stage alone and starts absent.
InitialContexts ==
    LET pending == {Put(EmptyContext, PLAN_CONTEXT_PENDING_USER, u) : u \in Users}
    IN  {EmptyContext, Put(EmptyContext, PLAN_CONTEXT_IS_RESTORED, TRUE)}
        \cup pending
        \cup {Put(c, PLAN_CONTEXT_EMAIL_OVERRIDE, OverrideAddress) :
                 c \in {Put(EmptyContext, PLAN_CONTEXT_PENDING_USER, UserAB)}}

\* the plans the followed session starts with: every such context on stage
\* s, and on stage s-a the user whose identifier there is that of user a-b
\* on stage s
InitialPlans ==
    {[flow |-> "flow", stage |-> sc[1], cursor |-> 0, context |-> sc[2]] :
        sc \in ({StageS} \X InitialContexts)
               \cup {<<StageSA, Put(EmptyContext, PLAN_CONTEXT_PENDING_USER, UserB)>>}}

NoRequest == [kind |-> "none"]

\* the requests that can be under way at once
Slots == {"r1", "r2"}
Idle == [pc |-> "idle"]

Init ==
    /\ now = 0
    /\ nextKey = 1
    /\ tokens = {}
    /\ is_active = [u \in Users |-> FALSE]
    /\ plan \in InitialPlans
    /\ has_token = FALSE
    /\ dispatched = 0
    /\ resp = NoRequest
    /\ inflight = [q \in Slots |-> Idle]


\* the record of a request that has ended: before is the table as its last
\* statement found it
Response(kind, session, pl, ht, r) ==
    [kind |-> kind, session |-> session, entry |-> pl, entry_has_token |-> ht,
     before |-> tokens, active_before |-> is_active,
     outcome |-> r.outcome, error |-> r.error, messages |-> r.messages,
     mails |-> r.mails, saved |-> r.saved, existed |-> r.existed,
     found |-> r.found, token |-> r.token,
     created |-> r.created, rotated |-> r.rotated, exit |-> r.plan]

\* request.user matters only where the plan holds no pending user
RequestUsers(pl) ==
    IF Has(pl.context, PLAN_CONTEXT_PENDING_USER)
    THEN {pl.context[PLAN_CONTEXT_PENDING_USER]}
    ELSE Users

\* a request between two of its statements: what the handler holds by then
Suspended(kind, session, request_user, r) ==
    [pc |-> r.pc, kind |-> kind, session |-> session, user |-> request_user,
     plan |-> r.plan, existed |-> r.existed, expires |-> r.expires,
     found |-> r.found, token |-> r.token]

\* the request taken up again, in front of the database as it is by now
Resumed(me) ==
    [Request(me.plan, tokens, is_active) EXCEPT
        !.pc = me.pc, !.existed = me.existed, !.expires = me.expires,
        !.found = me.found, !.token = me.token,
        !.created = IF me.pc = "send" /\ me.found = NoToken THEN {me.token} ELSE {},
        !.rotated = IF me.pc = "send" /\ me.found # NoToken /\ me.token # me.found
                    THEN {me.found} ELSE {}]

\* One step of the request in slot q: its handler has run from where r0 stood
\* up to and including its next statement, or to its end, and r is what
\* came of it.  The statement's writes reach the state shared
\* by all sessions; a request that ends leaves its record, and a request of
\* the followed session hands its plan back to the session.
Step(q, kind, session, ht, request_user, r0, r) ==
    LET over == r.pc \in {"done", "raised"}
        sent == IF kind = "get" THEN Len(r.mails) ELSE 0
    IN  /\ nextKey + r.used <= MaxKeys + 1
        /\ nextKey' = nextKey + r.used
        /\ tokens' = r.store
        /\ is_active' = r.active
        /\ IF over
           THEN /\ inflight' = [inflight EXCEPT ![q] = Idle]
                /\ resp' = Response(kind, session, r0.plan, ht, r)
           ELSE /\ inflight' = [inflight EXCEPT ![q] = Suspended(kind, session, request_user, r)]
                /\ resp' = NoRequest
        /\ IF over /\ session = "followed"
           THEN /\ dispatched + sent <= MaxSends
                /\ dispatched' = dispatched + sent
                /\ plan' = r.plan
           ELSE UNCHANGED <<plan, dispatched>>
        /\ UNCHANGED <<now, has_token>>

\* GET on the stage, in the session that is followed: the handler up to
\* tokens.exists(), or to its response when it needs no token
Get(request_user) ==
    LET r0 == Request(plan, tokens, is_active)
    IN  /\ inflight["r1"] = Idle
        /\ plan.cursor = 0
        /\ Step("r1", "get", "followed", has_token, request_user, r0,
                get(r0, has_token, request_user, now, nextKey))

\* a response submitted to the stage, in the session that is followed: the
\* handler up to tokens.exists(), or to its response
Post(attrs, request_user) ==
    LET r0 == Request(plan, tokens, is_active)
    IN  /\ inflight["r1"] = Idle
        /\ plan.cursor = 0
        /\ Step("r1", "post", "followed", has_token, request_user, r0,
                post(r0, attrs, request_user, now, nextKey))

\* the plan of another session: a flow just planned for a pending user,
\* whose stage and user give the identifier that stage s-a gives to user B
OtherPlans ==
    {[flow |-> "flow", stage |-> StageS, cursor |-> 0,
      context |-> Put(EmptyContext, PLAN_CONTEXT_PENDING_USER, UserAB)]}

\* the first GET on the stage in another session, whose plan is pl: the
\* handler up to tokens.exists()
OtherGet(pl) ==
    LET r0 == Request(pl, tokens, is_active)
        request_user == pl.context[PLAN_CONTEXT_PENDING_USER]
    IN  /\ inflight["r2"] = Idle
        /\ Step("r2", "get", "other", FALSE, request_user, r0,
                get(r0, FALSE, request_user, now, nextKey))

\* the request under way in slot q, inside send_email, runs its next
\* statement: in get_token now() for the expiry of a new token, the insert,
\* first(), the expiry check against the clock, or the save; or send_mails,
\* with the rest of the handler after it
Proceed(q) ==
    LET me == inflight[q]
        r0 == Resumed(me)
        ht == me.session = "followed" /\ has_token
    IN  /\ me # Idle
        /\ Step(q, me.kind, me.session, ht, me.user, r0,
                IF me.kind = "get"
                THEN get(r0, ht, me.user, now, nextKey)
                ELSE challenge_invalid(r0, me.user, now, nextKey))

\* send_mails raises in the request under way in slot q: the exception
\* leaves the handler, no mail is dispatched and the marker is not written
ProceedFails(q) ==
    LET me == inflight[q]
        r0 == Resumed(me)
        ht == me.session = "followed" /\ has_token
    IN  /\ me # Idle
        /\ me.pc = "send"
        /\ Step(q, me.kind, me.session, ht, me.user, r0, raised(r0, "send_mails"))

\* housekeeping outside the stage deletes an expired row
Housekeeping(row) ==
    /\ row \in tokens
    /\ is_expired(row, now)
    /\ tokens' = delete(tokens, row)
    /\ resp' = NoRequest
    /\ UNCHANGED <<now, nextKey, is_active, plan, has_token, dispatched, inflight>>

\* the user follows a link carrying key: the executor stores the query in
\* the session and, when the key redeems a token, replaces the session's
\* plan by the token's snapshot, flagged restored; the record of the step
\* holds the redeemed row as its token
Return(key) ==
    LET rows == redeem(tokens, key)
    IN  /\ inflight["r1"] = Idle
        /\ has_token' = TRUE
        /\ IF rows = {}
           THEN UNCHANGED <<plan, dispatched>>
           ELSE LET restored == unpickle(first(rows).plan)
                IN /\ plan' = [restored EXCEPT
                                 !.context = Put(@, PLAN_CONTEXT_IS_RESTORED, TRUE)]
                   /\ dispatched' = 0
        /\ resp' = [kind |-> "return", found |-> NoToken,
                    token |-> IF rows = {} THEN NoToken ELSE first(rows),
                    saved |-> <<>>, active_before |-> is_active]
        /\ UNCHANGED <<now, nextKey, tokens, is_active, inflight>>

\* the user opens the flow again without a token in the query
Navigate ==
    /\ inflight["r1"] = Idle
    /\ has_token
    /\ has_token' = FALSE
    /\ resp' = NoRequest
    /\ UNCHANGED <<now, nextKey, tokens, is_active, plan, dispatched, inflight>>

\* a minute passes
Tick ==
    /\ now < MaxTime
    /\ now' = now + 1
    /\ resp' = NoRequest
    /\ UNCHANGED <<nextKey, tokens, is_active, plan, has_token, dispatched, inflight>>

\* the bodies a client can submit
Attrs == {"empty", "component"}

Next ==
    \/ \E u \in RequestUsers(plan) : Get(u)
    \/ \E a \in Attrs, u \in RequestUsers(plan) : Post(a, u)
    \/ \E pl \in OtherPlans : OtherGet(pl)
    \/ \E q \in Slots : Proceed(q)
    \/ \E q \in Slots : ProceedFails(q)
    \/ \E row \in tokens : Housekeeping(row)
    \/ \E k \in 1..MaxKeys : Return(k)
    \/ Navigate
    \/ Tick

Spec == Init /\ [][Next]_vars

(* ------------------------ overlapping requests ------------------------ *)

\* Requests of different sessions overlap.  Each runs send_email, and inside
\* it get_token, one statement at a time: exists(), then now() for the
\* expiry of a new token and the insert, or first(), the expiry check
\* against the clock and the save of the rotated row.  Housekeeping deletes
\* expired rows in between.  A request fails when its insert or save is
\* refused, when first() has found the row gone, or when send_mails raises.

\* the plans of the sessions whose requests overlap
RacePlans ==
    {[flow |-> "flow", stage |-> su[1], cursor |-> 0,
      context |-> Put(EmptyContext, PLAN_CONTEXT_PENDING_USER, su[2])] :
        su \in {<<StageS, UserAB>>, <<StageSA, UserB>>, <<StageS, UserB>>}}

session_state == <<is_active, plan, has_token, dispatched, resp>>

InitRace ==
    /\ Init
    /\ plan = [flow |-> "flow", stage |-> StageS, cursor |-> 0, context |-> EmptyContext]

\* what a request sees of the table when it dispatches: the rows stored
\* under the identifier of its token, and which of them and of its token are
\* expired by then
NotSeen == [stored |-> {}, expired |-> {}]
Seen(store, token) ==
    LET rows == filter_identifier(store, token.identifier)
    IN  [stored |-> rows, expired |-> {t \in rows \cup {token} : is_expired(t, now)}]

\* a request as it reaches get_token
Entering(pl) ==
    [pc |-> "exists", plan |-> pl, expires |-> 0, token |-> NoToken, observed |-> NoToken,
     rotated |-> FALSE, created |-> FALSE, mail |-> NoMail, sent |-> NotSeen]

\* mutant: the marker written before send_email is called
Begin_marks_first(q, pl) ==
    /\ inflight[q].pc \in {"idle", "done", "failed"}
    /\ inflight' = [inflight EXCEPT ![q] =
          Entering([pl EXCEPT !.context = Put(@, PLAN_CONTEXT_EMAIL_SENT, TRUE)])]
    /\ UNCHANGED <<now, nextKey, tokens, session_state>>

\* a GET enters the stage with the marker absent and reaches get_token
Begin(q, pl) ==
    /\ inflight[q].pc \in {"idle", "done", "failed"}
    /\ inflight' = [inflight EXCEPT ![q] = Entering(pl)]
    /\ UNCHANGED <<now, nextKey, tokens, session_state>>

\* after a request that failed, the next GET of the session: its plan is as
\* the failed request left it, and it reaches get_token if the marker is absent
Retry(q) ==
    /\ inflight[q].pc = "failed"
    /\ marker_absent(inflight[q].plan.context)
    /\ inflight' = [inflight EXCEPT ![q] = Entering(inflight[q].plan)]
    /\ UNCHANGED <<now, nextKey, tokens, session_state>>

\* tokens = FlowToken.objects.filter(identifier=identifier); tokens.exists()
Exists(q) ==
    LET me == inflight[q]
        pending_user == me.plan.context[PLAN_CONTEXT_PENDING_USER]
        rows == filter_identifier(tokens, identifier(me.plan.stage, pending_user))
    IN  /\ me.pc = "exists"
        /\ inflight' = [inflight EXCEPT ![q] =
              IF token_missing(rows)
              THEN [me EXCEPT !.pc = "now"]
              ELSE [me EXCEPT !.pc = "first"]]
        /\ UNCHANGED <<now, nextKey, tokens, session_state>>

\* expires=now() + valid_delta, computed before create() is called
ReadClock(q) ==
    LET me == inflight[q]
    IN  /\ me.pc = "now"
        /\ inflight' = [inflight EXCEPT ![q] =
              [me EXCEPT !.pc = "create", !.expires = now + valid_delta(me.plan.stage)]]
        /\ UNCHANGED <<now, nextKey, tokens, session_state>>

\* FlowToken.objects.create(...): the insert, with the expiry computed
\* before; refused when the identifier is taken by now
Create(q) ==
    LET me == inflight[q]
        pending_user == me.plan.context[PLAN_CONTEXT_PENDING_USER]
        row == new_token(Request(me.plan, tokens, is_active), pending_user, me.expires, nextKey)
    IN  /\ me.pc = "create"
        /\ nextKey <= MaxKeys
        /\ nextKey' = nextKey + 1
        /\ tokens' = create(tokens, row)
        /\ inflight' = [inflight EXCEPT ![q] =
              IF unique_violation(tokens, row)
              THEN [Entering(me.plan) EXCEPT !.pc = "failed"]
              ELSE [me EXCEPT !.pc = "send", !.token = row, !.created = TRUE]]
        /\ UNCHANGED <<now, session_state>>

\* token = tokens.first(): None when the row has gone since exists()
First(q) ==
    LET me == inflight[q]
        pending_user == me.plan.context[PLAN_CONTEXT_PENDING_USER]
        rows == filter_identifier(tokens, identifier(me.plan.stage, pending_user))
    IN  /\ me.pc = "first"
        /\ inflight' = [inflight EXCEPT ![q] =
              IF rows = {}
              THEN [me EXCEPT !.pc = "check"]
              ELSE [me EXCEPT !.pc = "check", !.token = first(rows), !.observed = first(rows)]]
        /\ UNCHANGED <<now, nextKey, tokens, session_state>>

\* if token.is_expired: the clock is read; on None the request fails; a
\* token that is not expired is returned
Check(q) ==
    LET me == inflight[q]
    IN  /\ me.pc = "check"
        /\ inflight' = [inflight EXCEPT ![q] =
              IF me.token = NoToken
              THEN [me EXCEPT !.pc = "failed"]
              ELSE IF needs_rotation(me.token, now)
              THEN [me EXCEPT !.pc = "save"]
              ELSE [me EXCEPT !.pc = "send"]]
        /\ UNCHANGED <<now, nextKey, tokens, session_state>>

\* token.expire_action(): the new key and expiry, and the save of the row;
\* a request whose save is refused fails holding the row it had read
Save(q) ==
    LET me == inflight[q]
        renewed == expire_action(me.token, nextKey, now)
    IN  /\ me.pc = "save"
        /\ nextKey <= MaxKeys
        /\ nextKey' = nextKey + 1
        /\ IF save_refused(tokens, renewed)
           THEN /\ inflight' = [inflight EXCEPT ![q] =
                      [Entering(me.plan) EXCEPT !.pc = "failed", !.observed = me.observed]]
                /\ UNCHANGED tokens
           ELSE /\ tokens' = save(tokens, renewed)
                /\ inflight' = [inflight EXCEPT ![q] =
                      [me EXCEPT !.pc = "send", !.token = renewed, !.rotated = TRUE]]
        /\ UNCHANGED <<now, session_state>>

\* the rest of send_email, and the marker set by get
Send(q) ==
    LET me == inflight[q]
        pending_user == me.plan.context[PLAN_CONTEXT_PENDING_USER]
        message == [to |-> email_of(pending_user), key |-> me.token.key, user |-> pending_user,
                    expires |-> me.token.expires, stage |-> me.plan.stage.name]
    IN  /\ me.pc = "send"
        /\ inflight' = [inflight EXCEPT ![q] =
              [me EXCEPT !.pc = "done", !.mail = message,
                         !.sent = Seen(tokens, me.token),
                         !.plan.context = Put(@, PLAN_CONTEXT_EMAIL_SENT, TRUE)]]
        /\ UNCHANGED <<now, nextKey, tokens, session_state>>

\* send_mails raises: the request ends before get writes the marker
SendFails(q) ==
    /\ inflight[q].pc = "send"
    /\ inflight' = [inflight EXCEPT ![q] = [Entering(@.plan) EXCEPT !.pc = "failed"]]
    /\ UNCHANGED <<now, nextKey, tokens, session_state>>

\* a minute passes while requests are under way
TickRace ==
    /\ now < MaxTime
    /\ now' = now + 1
    /\ UNCHANGED <<nextKey, tokens, session_state, inflight>>

NextRace ==
    \/ \E q \in Slots, pl \in RacePlans : Begin(q, pl)
    \/ \E q \in Slots : Exists(q)
    \/ \E q \in Slots : ReadClock(q)
    \/ \E q \in Slots : Create(q)
    \/ \E q \in Slots : First(q)
    \/ \E q \in Slots : Check(q)
    \/ \E q \in Slots : Save(q)
    \/ \E q \in Slots : Send(q)
    \/ \E q \in Slots : SendFails(q)
    \/ \E q \in Slots : Retry(q)
    \/ \E row \in tokens : Housekeeping(row)
    \/ TickRace

SpecRace == InitRace /\ [][NextRace]_vars

(* ------------------------------ claims -------------------------------- *)

\* what the last request saw on entry
EntryHasUser == PLAN_CONTEXT_PENDING_USER \in DOMAIN resp.entry.context
EntryHasMarker == PLAN_CONTEXT_EMAIL_SENT \in DOMAIN resp.entry.context
EntryRestored ==
    /\ resp.entry_has_token
    /\ PLAN_CONTEXT_IS_RESTORED \in DOMAIN resp.entry.context
    /\ resp.entry.context[PLAN_CONTEXT_IS_RESTORED]
IsGet == resp.kind = "get"
IsPost == resp.kind = "post"

\* the rows stored under the identifier of the request under way in slot q
RowsOf(q) ==
    filter_identifier(tokens, identifier(inflight[q].plan.stage,
                                         get_pending_user(inflight[q], inflight[q].user)))

\* the request under way in slot q, standing at pc, takes its next step
Takes(q, pc) == inflight[q].pc = pc /\ inflight'[q] # inflight[q]

\* C1: on one plan that holds a pending user, GET entries off the restored
\* path dispatch the initial email exactly once in total: the GET that finds
\* the marker email_sent absent dispatches one email and sets the marker,
\* and a GET that finds the marker dispatches none (a GET in which
\* send_mails itself raises is left aside).
C1_InitialEmailOnce ==
    /\ dispatched <= 1
    /\ dispatched = 1 => PLAN_CONTEXT_EMAIL_SENT \in DOMAIN plan.context
    /\ (IsGet /\ EntryHasUser /\ ~EntryRestored /\ resp.error # "send_mails") =>
          IF EntryHasMarker
          THEN resp.mails = <<>> /\ resp.exit = resp.entry
          ELSE /\ Len(resp.mails) = 1
               /\ PLAN_CONTEXT_EMAIL_SENT \in DOMAIN resp.exit.context

\* C2: a GET entry whose session holds the token key and whose plan is
\* flagged restored reports stage_ok in that request, and the plan moves on.
C2_RestoredEntrySatisfies ==
    (IsGet /\ EntryRestored) =>
        /\ resp.outcome = "stage_ok"
        /\ resp.exit.cursor = resp.entry.cursor + 1

C2_Witness ==
    /\ IsGet /\ EntryRestored /\ EntryHasUser
    /\ resp.outcome = "stage_ok"
    /\ resp.exit.cursor = 1

\* what a request without a pending user must look like
NoPendingUserOutcome ==
    /\ resp.outcome = "stage_invalid"
    /\ resp.messages = <<"No pending user.">>
    /\ resp.exit.cursor = resp.entry.cursor

NoSideEffect ==
    /\ resp.mails = <<>>
    /\ resp.created = {} /\ resp.rotated = {}
    /\ tokens = resp.before

\* C3 as stated: with no pending user in the context, every entry (GET or
\* response submission, whatever the session holds) ends stage-invalid with
\* "No pending user", without email, token creation, rotation or stage_ok.
C3_Original ==
    ((IsGet \/ IsPost) /\ ~EntryHasUser) => (NoPendingUserOutcome /\ NoSideEffect)

\* C3 as amended: with no pending user in the context, no entry dispatches an
\* email or creates or rotates a token; every entry other than a GET on the
\* restored path ends stage-invalid with "No pending user"; a GET on the
\* restored path reports stage_ok.
C3_NoPendingUser ==
    ((IsGet \/ IsPost) /\ ~EntryHasUser) =>
        /\ NoSideEffect
        /\ IF IsGet /\ EntryRestored
           THEN resp.outcome = "stage_ok"
           ELSE NoPendingUserOutcome

C3_Witness ==
    /\ IsPost /\ ~EntryHasUser /\ EntryRestored
    /\ NoPendingUserOutcome /\ NoSideEffect

\* C4: when first() returns the token of the identifier and the token is not
\* expired when get_token checks it, get_token returns that very token:
\* neither first() nor the check creates a token, takes a key or writes to
\* the table, also when the caller's plan differs from the snapshot.
C4_GetTokenReuses ==
    [][\A q \in Slots :
          /\ (Takes(q, "first") /\ RowsOf(q) # {}) =>
                /\ inflight'[q].pc = "check"
                /\ inflight'[q].token = first(RowsOf(q))
                /\ inflight'[q].found = first(RowsOf(q))
                /\ tokens' = tokens
                /\ nextKey' = nextKey
          /\ (Takes(q, "check") /\ inflight[q].found # NoToken
                 /\ ~is_expired(inflight[q].found, now)) =>
                /\ inflight'[q].pc = "send"
                /\ inflight'[q].token = inflight[q].found
                /\ inflight'[q].found = inflight[q].found
                /\ tokens' = tokens
                /\ nextKey' = nextKey]_vars

\* a second caller whose plan is not the stored snapshot was mailed the key
\* of the token as it is stored
C4_Witness ==
    /\ (IsGet \/ IsPost) /\ resp.found # NoToken
    /\ resp.rotated = {} /\ resp.created = {}
    /\ resp.token = resp.found /\ resp.found \in tokens
    /\ Len(resp.mails) = 1 /\ resp.mails[1].key = resp.found.key
    /\ resp.found.plan.items # {<<k, resp.entry.context[k]>> : k \in DOMAIN resp.entry.context}

\* C5: when get_token finds the token that first() returned expired it
\* rotates it: the save is its next statement, and the token it then returns
\* is the same row with the same identifier, another key and a strictly
\* later expiry.  The save is refused only when the row has been deleted and
\* its identifier taken by a new row since it was read.
C5_RotationOnExpiry ==
    [][\A q \in Slots :
          /\ (Takes(q, "check") /\ inflight[q].found # NoToken
                 /\ is_expired(inflight[q].found, now)) =>
                /\ inflight'[q].pc = "save"
                /\ inflight'[q].found = inflight[q].found
                /\ tokens' = tokens
          /\ Takes(q, "save") =>
                IF inflight'[q].pc = "send"
                THEN /\ inflight'[q].token.pk = inflight[q].found.pk
                     /\ inflight'[q].token.identifier = inflight[q].found.identifier
                     /\ inflight'[q].token.key # inflight[q].found.key
                     /\ inflight'[q].token.expires > inflight[q].found.expires
                     /\ inflight'[q].token \in tokens'
                     /\ inflight[q].found \notin tokens'
                ELSE /\ resp'.error = "IntegrityError"
                     /\ tokens' = tokens
                     /\ \A t \in tokens : t.pk # inflight[q].found.pk
                     /\ \E t \in tokens : t.identifier = inflight[q].found.identifier]_vars

\* a request found an expired token and was mailed the key of the rotated row
C5_Witness ==
    /\ (IsGet \/ IsPost) /\ resp.found # NoToken
    /\ resp.rotated = {resp.found}
    /\ resp.token.key # resp.found.key
    /\ resp.token.expires > resp.found.expires
    /\ resp.token \in tokens
    /\ Len(resp.mails) = 1 /\ resp.mails[1].key = resp.token.key

\* C6: every response submitted while the context holds a pending user
\* dispatches exactly one email, whether or not the marker is set (a
\* submission in which send_mails itself raises is left aside).
C6_OneResendPerSubmission ==
    (IsPost /\ EntryHasUser /\ resp.error # "send_mails") =>
        /\ Len(resp.mails) = 1
        /\ resp.mails[1].user = resp.entry.context[PLAN_CONTEXT_PENDING_USER]

\* C7: no response submission advances the plan: every submission leaves
\* the cursor where it was, the handlers answer with the stage-invalid
\* outcome and with no other, a submission is left unanswered only when an
\* exception leaves get_token or send_mails, and the handler for valid
\* responses ends as the handler for invalid ones.
C7_SubmissionNeverAdvances ==
    /\ IsPost =>
          /\ resp.exit.cursor = resp.entry.cursor
          /\ resp.session = "followed" => plan.cursor = resp.entry.cursor
          /\ resp.outcome \in {"stage_invalid", "raised"}
          /\ resp.outcome = "raised" =>
                /\ resp.error \in {"IntegrityError", "AttributeError", "send_mails"}
                /\ resp.mails = <<>>
    /\ \A u \in Users :
          LET r == challenge_valid(Request(plan, tokens, is_active), u, now, nextKey)
          IN r.outcome = "stage_invalid" /\ r.plan.cursor = plan.cursor

C7_Witness ==
    /\ IsPost /\ EntryHasUser /\ EntryRestored
    /\ resp.outcome = "stage_invalid"
    /\ resp.exit.cursor = 0

\* a key redeems when the executor's lookup by key finds a row
Redeemable(key) == \E t \in tokens : t.key = key

\* the identifier a request under way works on
IdentifierOf(q) ==
    slugify(<<"a", "k", "-", "e", "m", "a", "i", "l", "-", "s", "t", "a", "g", "e", "-">>
            \o inflight[q].plan.stage.name \o <<"-">>
            \o inflight[q].plan.context[PLAN_CONTEXT_PENDING_USER])

\* C8: however the lookups and inserts of overlapping get_token calls
\* interleave, the table never holds two tokens with one identifier.
C8_NoDuplicateToken ==
    \A t1 \in tokens, t2 \in tokens : t1.identifier = t2.identifier => t1 = t2

\* two requests both found no token; one inserted, the other was refused
C8_Witness ==
    \E q1 \in Slots, q2 \in Slots :
        /\ inflight[q1].pc = "done" /\ inflight[q1].created
        /\ inflight[q2].pc = "failed"
        /\ IdentifierOf(q1) = IdentifierOf(q2)
        /\ Cardinality(tokens) = 1

\* both requests saw the same expired row and rotated it
BothRotated(q1, q2) ==
    /\ q1 # q2
    /\ inflight[q1].pc = "done" /\ inflight[q1].rotated
    /\ inflight[q2].pc = "done" /\ inflight[q2].rotated
    /\ inflight[q1].observed = inflight[q2].observed

\* C9: when two overlapping get_token calls saw the same token expired and
\* both rotated it, one row and one key remain for the identifier: exactly
\* one of the two keys sent out redeems, and the other is rejected.
C9_OneLiveKey ==
    /\ \A t1 \in tokens, t2 \in tokens : t1.identifier = t2.identifier => t1.key = t2.key
    /\ \A q1 \in Slots, q2 \in Slots :
          BothRotated(q1, q2) =>
              /\ inflight[q1].mail.key # inflight[q2].mail.key
              /\ Redeemable(inflight[q1].mail.key) # Redeemable(inflight[q2].mail.key)

C9_Witness ==
    \E q1 \in Slots, q2 \in Slots :
        /\ BothRotated(q1, q2)
        /\ Redeemable(inflight[q1].mail.key)
        /\ ~Redeemable(inflight[q2].mail.key)

\* C10: a request changes the active flag only on the restored path of a
\* stage with activate_user_on_success: there it saves exactly one user, now
\* active, and reports stage_ok; any other request saves no user and leaves
\* every active flag as it was.
C10_ActivationOnRestoredEntry ==
    resp.kind # "none" =>
        IF IsGet /\ EntryRestored /\ resp.entry.stage.activate_user_on_success
        THEN /\ resp.outcome = "stage_ok"
             /\ Len(resp.saved) = 1
             /\ EntryHasUser => resp.saved[1] = resp.entry.context[PLAN_CONTEXT_PENDING_USER]
             /\ is_active = [resp.active_before EXCEPT ![resp.saved[1]] = TRUE]
        ELSE /\ resp.saved = <<>>
             /\ is_active = resp.active_before

C10_Witness ==
    /\ IsGet /\ EntryRestored /\ EntryHasUser
    /\ resp.outcome = "stage_ok"
    /\ resp.saved = <<resp.entry.context[PLAN_CONTEXT_PENDING_USER]>>
    /\ ~resp.active_before[resp.saved[1]]
    /\ is_active[resp.saved[1]]

\* the last step was a link followed whose key redeemed a token
IsReturn == resp.kind = "return" /\ resp.token # NoToken

\* C11: the snapshot stored in a token at creation is the plan the request
\* entered get_token with, and a plan redeemed from a token holds, for every
\* key of the snapshot, the value the snapshot holds, on the stage and at the
\* cursor of the snapshot.
C11_SnapshotRoundTrip ==
    /\ (IsGet \/ IsPost) => \A row \in resp.created :
          /\ row.plan.flow = resp.entry.flow
          /\ row.plan.stage = resp.entry.stage
          /\ row.plan.cursor = resp.entry.cursor
          /\ row.plan.items = {<<k, resp.entry.context[k]>> : k \in DOMAIN resp.entry.context}
    /\ IsReturn =>
          /\ plan.flow = resp.token.plan.flow
          /\ plan.stage = resp.token.plan.stage
          /\ plan.cursor = resp.token.plan.cursor
          /\ \A item \in resp.token.plan.items :
                /\ item[1] \in DOMAIN plan.context
                /\ plan.context[item[1]] = item[2]

\* a plan redeemed from a snapshot taken with a pending user and an address
\* override, after the token was rotated
C11_Witness ==
    /\ IsReturn
    /\ resp.token.key # resp.token.pk
    /\ PLAN_CONTEXT_EMAIL_OVERRIDE \in DOMAIN plan.context
    /\ PLAN_CONTEXT_PENDING_USER \in DOMAIN plan.context
    /\ <<PLAN_CONTEXT_PENDING_USER, plan.context[PLAN_CONTEXT_PENDING_USER]>>
          \in resp.token.plan.items
    /\ <<PLAN_CONTEXT_EMAIL_OVERRIDE, OverrideAddress>> \in resp.token.plan.items

\* C12: whatever the users and stages of the requests, the table holds at
\* most one token per identifier, and get_token inserts a token only after
\* exists() has found none under the identifier; the insert is refused, and
\* the table left alone, only when another request has stored a token of the
\* identifier between the two statements, which requests that run one after
\* the other do not.
C12_OneTokenPerIdentifier ==
    [][/\ Cardinality({t.identifier : t \in tokens'}) = Cardinality(tokens')
       /\ \A q \in Slots :
             Takes(q, "create") =>
                 /\ ~inflight[q].existed
                 /\ IF RowsOf(q) = {}
                    THEN /\ inflight'[q].pc = "send"
                         /\ inflight'[q].token.identifier \notin {t.identifier : t \in tokens}
                         /\ tokens' = tokens \cup {inflight'[q].token}
                    ELSE /\ inflight'[q] = Idle
                         /\ resp'.error = "IntegrityError"
                         /\ tokens' = tokens]_vars

\* a request that found the token of its identifier and created none, in a
\* table that holds the tokens of two identifiers
C12_Witness ==
    /\ (IsGet \/ IsPost)
    /\ Cardinality(tokens) = 2
    /\ resp.existed
    /\ resp.found # NoToken /\ resp.found.identifier = resp.token.identifier
    /\ resp.created = {}
    /\ Len(resp.mails) = 1

\* C13: no step of the stage removes a token: but for the deletions of the
\* housekeeping outside the stage, every row of the table is there after the
\* step, under the same primary key and identifier, either untouched or
\* rotated, to another key and an expiry ahead, by a request that read it
\* expired.
C13_TokensNeverRemoved ==
    [][\/ \E row \in tokens : Housekeeping(row)
       \/ \A t \in tokens : \E n \in tokens' :
             /\ n.pk = t.pk
             /\ n.identifier = t.identifier
             /\ \/ n = t
                \/ /\ \E q \in Slots :
                         /\ Takes(q, "save")
                         /\ inflight[q].found.pk = t.pk
                         /\ is_expired(inflight[q].found, now)
                   /\ n.key # t.key
                   /\ n.expires > now]_vars

\* one expired token was rotated while another expired token stays stored
C13_Witness ==
    /\ (IsGet \/ IsPost)
    /\ resp.rotated # {}
    /\ \E t \in resp.rotated : \E n \in tokens : n.pk = t.pk /\ n.key # t.key
    /\ \E t \in tokens : now > t.expires /\ t \in resp.before

\* C14 as stated: a token is stored with an expiry of the time of its
\* creation plus the stage's token_expiry plus one minute, and counts as
\* expired at no time up to then.
C14_Original ==
    [][\A q \in Slots :
          (Takes(q, "create") /\ inflight'[q].pc = "send") =>
              LET row == inflight'[q].token
                  due == now + inflight[q].plan.stage.token_expiry + 1
              IN  /\ row \in tokens'
                  /\ row.expires = due
                  /\ \A t \in 0..due : ~is_expired(row, t)
                  /\ is_expired(row, due + 1)]_vars

\* C14 as amended: the expiry of a new token is the time get_token reads
\* from the clock before it calls create(), plus the stage's token_expiry
\* plus one minute; the insert stores that expiry, so the row counts as
\* expired at no time up to it, and its expiry is at most the time of the
\* insert plus token_expiry plus one minute.
C14_ExpiryOfNewToken ==
    [][\A q \in Slots :
          /\ Takes(q, "now") =>
                /\ inflight'[q].pc = "create"
                /\ inflight'[q].expires = now + inflight[q].plan.stage.token_expiry + 1
                /\ tokens' = tokens
          /\ (Takes(q, "create") /\ inflight'[q].pc = "send") =>
                LET row == inflight'[q].token
                IN  /\ row \in tokens'
                    /\ row.expires = inflight[q].expires
                    /\ row.expires <= now + inflight[q].plan.stage.token_expiry + 1
                    /\ \A t \in 0..row.expires : ~is_expired(row, t)
                    /\ is_expired(row, row.expires + 1)]_vars

\* a token stored, on the stage with token_expiry 2, a minute after its
\* expiry was computed
C14_Witness ==
    \E q \in Slots :
        /\ inflight[q].pc = "send"
        /\ inflight[q].found = NoToken
        /\ inflight[q].plan.stage.token_expiry = 2
        /\ inflight[q].token \in tokens
        /\ inflight[q].token.expires = 3
        /\ now = 1 /\ nextKey = 2

\* C15: a rotation keeps the token's owner, flow and plan snapshot: the row
\* that the new key redeems holds the snapshot taken when the token was
\* created, whatever the plan of the request that rotated it.
C15_RotationKeepsSnapshot ==
    (IsGet \/ IsPost) => \A old \in resp.rotated :
        /\ resp.token.user = old.user
        /\ resp.token.flow = old.flow
        /\ resp.token.plan = old.plan
        /\ \A t \in tokens : t.key = resp.token.key =>
              /\ t.plan = old.plan
              /\ t.user = old.user

\* a rotation by a request whose plan is not the stored snapshot
C15_Witness ==
    /\ (IsGet \/ IsPost)
    /\ \E old \in resp.rotated :
          /\ old.plan.items # {<<k, resp.entry.context[k]>> : k \in DOMAIN resp.entry.context}
          /\ \E t \in tokens : t.key = resp.token.key /\ t.key # old.key /\ t.plan = old.plan

\* C16: every email dispatched carries the key that the token stored under
\* the request's identifier has at the time of the dispatch, so that no
\* email carries a key that a rotation has replaced by then, and a request
\* that found an expired token does not fail on it (a request delayed past
\* the expiry of its token, and a token deleted by housekeeping, are left
\* aside).
C16_CurrentKeyAtDispatch ==
    \A q \in Slots :
        /\ inflight[q].pc = "done" =>
              \A t \in inflight[q].sent.stored :
                  t.pk = inflight[q].token.pk => t.key = inflight[q].mail.key
        /\ inflight[q].pc = "failed" => inflight[q].observed = NoToken

\* the restored flag of a plan context, read as the stage reads it
Flagged(ctx) == PLAN_CONTEXT_IS_RESTORED \in DOMAIN ctx /\ ctx[PLAN_CONTEXT_IS_RESTORED]

\* C17: a request reports stage_ok only if it is a GET whose session holds
\* the token key and whose plan is flagged restored; a GET or a submission
\* that finds either missing does not report stage_ok, leaves the cursor in
\* place and changes neither the session's token key nor the plan's flag, so
\* no sequence of them reaches stage_ok.
C17_StageOkOnlyRestored ==
    (IsGet \/ IsPost) =>
        /\ resp.outcome = "stage_ok" => (IsGet /\ resp.entry_has_token /\ Flagged(resp.entry.context))
        /\ ~(resp.entry_has_token /\ Flagged(resp.entry.context)) =>
              /\ resp.outcome \in {"challenge", "stage_invalid", "raised"}
              /\ resp.exit.cursor = resp.entry.cursor
              /\ Flagged(resp.exit.context) = Flagged(resp.entry.context)
              /\ resp.session = "followed" =>
                    (has_token = resp.entry_has_token /\ plan = resp.exit)

\* a GET in a session that holds the token key on a plan that is not
\* flagged restored
C17_Witness ==
    /\ IsGet /\ EntryHasUser
    /\ resp.entry_has_token # Flagged(resp.entry.context)
    /\ resp.outcome = "challenge"
    /\ resp.session = "followed"
    /\ has_token /\ ~Flagged(plan.context)

\* C18: the token get_token returns to a request for pending user u on
\* stage s is owned by u and holds a snapshot of a plan of u on s, and the
\* link mailed to u carries the key of that token.
C18_TokenOfPendingUser ==
    ((IsGet \/ IsPost) /\ resp.token # NoToken) =>
        LET u == resp.entry.context[PLAN_CONTEXT_PENDING_USER]
        IN  /\ resp.token.user = u
            /\ <<PLAN_CONTEXT_PENDING_USER, u>> \in resp.token.plan.items
            /\ resp.token.plan.stage = resp.entry.stage
            /\ Len(resp.mails) = 1 =>
                  /\ resp.mails[1].user = u
                  /\ resp.mails[1].key = resp.token.key

\* C19: a GET on the restored path dispatches no email, asks get_token for
\* no token, leaves the table as it was and leaves the plan context, the
\* marker email_sent included, as it was, with or without the marker and
\* with or without a pending user.
C19_RestoredEntryFrame ==
    (IsGet /\ resp.entry_has_token /\ Flagged(resp.entry.context)) =>
        /\ resp.mails = <<>>
        /\ resp.token = NoToken /\ resp.found = NoToken
        /\ resp.created = {} /\ resp.rotated = {}
        /\ tokens = resp.before
        /\ (PLAN_CONTEXT_EMAIL_SENT \in DOMAIN resp.exit.context)
              = (PLAN_CONTEXT_EMAIL_SENT \in DOMAIN resp.entry.context)
        /\ resp.exit.context = resp.entry.context

\* a restored GET with a pending user and no marker, where an expired token
\* of the plan's identifier is stored: off the restored path this GET would
\* rotate the token and send an email
C19_Witness ==
    /\ IsGet /\ resp.entry_has_token /\ Flagged(resp.entry.context)
    /\ EntryHasUser /\ ~EntryHasMarker
    /\ resp.mails = <<>>
    /\ \E t \in tokens :
          /\ t.user = resp.entry.context[PLAN_CONTEXT_PENDING_USER]
          /\ t.plan.stage = resp.entry.stage
          /\ now > t.expires

\* C20: the plan of a request holds the marker email_sent only once the
\* request has dispatched its email; while get_token and the dispatch are
\* under way, and after a request that failed in the token's creation or in
\* the dispatch, the marker is absent and no email has gone out, so that the
\* session's next GET enters send_email again.
C20_MarkerOnlyAfterDispatch ==
    \A q \in Slots :
        LET me == inflight[q]
        IN  me.pc # "idle" =>
                /\ PLAN_CONTEXT_EMAIL_SENT \in DOMAIN me.plan.context =>
                      /\ me.pc = "done"
                      /\ me.mail # NoMail
                      /\ me.mail.user = me.plan.context[PLAN_CONTEXT_PENDING_USER]
                /\ me.pc = "failed" =>
                      /\ PLAN_CONTEXT_EMAIL_SENT \notin DOMAIN me.plan.context
                      /\ me.mail = NoMail
                /\ me.pc = "done" => PLAN_CONTEXT_EMAIL_SENT \in DOMAIN me.plan.context

\* two requests have failed: one in the dispatch, after it had created its
\* token, the other on an identifier whose token belongs to another user;
\* neither plan holds the marker
C20_Witness ==
    \E q1 \in Slots, q2 \in Slots :
        /\ inflight[q1].pc = "failed" /\ inflight[q2].pc = "failed"
        /\ IdentifierOf(q1) # IdentifierOf(q2)
        /\ \E t \in tokens :
              /\ t.identifier = IdentifierOf(q1)
              /\ t.plan.items = {<<k, inflight[q1].plan.context[k]>> :
                                    k \in DOMAIN inflight[q1].plan.context}
              /\ t.plan.stage = inflight[q1].plan.stage
        /\ \E t \in tokens :
              /\ t.identifier = IdentifierOf(q2)
              /\ t.user # inflight[q2].plan.context[PLAN_CONTEXT_PENDING_USER]
        /\ PLAN_CONTEXT_EMAIL_SENT \notin DOMAIN inflight[q1].plan.context
        /\ PLAN_CONTEXT_EMAIL_SENT \notin DOMAIN inflight[q2].plan.context

====
